---------------------------- MODULE Spec2Model ----------------------------
(***************************************************************************)
(* Model of minio_spark.datalake.MinIOSpark: archive expansion             *)
(* (extract_and_upload_zip, extract_and_upload_zip_by_prefix), the CSV and *)
(* Parquet loaders/writer and the ingestion orchestrator                   *)
(* (ingest_file_to_datalake), over an object store and a tabular engine.   *)
(*                                                                         *)
(* Strings (bucket names, object keys, view names) are sequences of        *)
(* one-character strings, so that os.path.splitext, str.endswith and the   *)
(* f-string concatenations are computed character by character.            *)
(***************************************************************************)
EXTENDS Integers, Sequences, FiniteSets, TLC

VARIABLES
    buckets,    \* set of bucket names that exist in the object store
    objects,    \* object store: <<bucket, key>> -> stored data
    views,      \* tabular engine session: view name -> table
    call,       \* call[p]: the in-flight (or last) call of caller p
    ncalls,     \* number of calls started so far
    nchanges,   \* number of external changes made to source objects so far
    kin,        \* key derivation: the source key and view name given
    kout,       \* key derivation: the derived parquet key and view name
    csvin,      \* CSV load: the arguments of read_csv_to_dataframe
    csvout      \* CSV load: the reader the load is made with

vars == <<buckets, objects, views, call, ncalls, nchanges, kin, kout, csvin, csvout>>

----------------------------------------------------------------------------
(* Bounds *)

MaxCalls   == 2     \* calls started in one behaviour
MaxChanges == 1     \* external changes to source objects in one behaviour
MaxKeyLen  == 5     \* longest key of the key-derivation specification
MaxOptions == 2     \* most items of an option_args dictionary

----------------------------------------------------------------------------
(* Strings *)

None == <<"None">>   \* Python's None where a string is optional

SLASH == "/"
DOT   == "."

ZipSuffix     == <<".", "z", "i", "p">>
ParquetSuffix == <<".", "p", "a", "r", "q", "u", "e", "t">>

\* str.rfind, 1-based; 0 when c does not occur
RFind(s, c) ==
    LET hits == {i \in 1..Len(s) : s[i] = c}
    IN  IF hits = {} THEN 0 ELSE CHOOSE i \in hits : \A j \in hits : j <= i

\* str.endswith
EndsWith(s, suffix) ==
    /\ Len(s) >= Len(suffix)
    /\ SubSeq(s, Len(s) - Len(suffix) + 1, Len(s)) = suffix

\* str.startswith
StartsWith(s, prefix) ==
    /\ Len(s) >= Len(prefix)
    /\ SubSeq(s, 1, Len(prefix)) = prefix

\* A mutant of SplitextRoot: splits at the first dot of the key.
SplitextRootFirstDot(p) ==
    LET hits == {i \in 1..Len(p) : p[i] = DOT}
    IN  IF hits = {} THEN p
        ELSE SubSeq(p, 1, (CHOOSE i \in hits : \A j \in hits : i <= j) - 1)

\* os.path.splitext(p)[0]: the extension starts at the last dot, when that
\* dot follows the last slash and some character of the file name before it
\* is not a dot.
SplitextRoot(p) ==
    LET sepIndex == RFind(p, SLASH)
        dotIndex == RFind(p, DOT)
    IN  IF /\ dotIndex > sepIndex
           /\ \E j \in (sepIndex + 1)..(dotIndex - 1) : p[j] # DOT
        THEN SubSeq(p, 1, dotIndex - 1)
        ELSE p

\* f'{os.path.splitext(prefix)[0]}.parquet'
ParquetObjectName(prefix) == SplitextRoot(prefix) \o ParquetSuffix

\* A mutant of ResolveViewName: the derived name keeps the extension.
ResolveViewNameKeepsExtension(prefix, temp_view_name) ==
    IF temp_view_name = None THEN prefix ELSE temp_view_name

\* temp_view_name when given, else os.path.splitext(prefix)[0]
ResolveViewName(prefix, temp_view_name) ==
    IF temp_view_name = None THEN SplitextRoot(prefix) ELSE temp_view_name

\* A mutant of IsZipName: the suffix test ignores case.
IsZipNameAnyCase(name) ==
    \/ EndsWith(name, ZipSuffix)
    \/ EndsWith(name, <<".", "Z", "I", "P">>)

\* minio_object.name.endswith('.zip')
IsZipName(name) == EndsWith(name, ZipSuffix)


----------------------------------------------------------------------------
(* Object store *)

\* Stored data: a plain file holds bytes, a ZIP archive holds entries (each a
\* name and its bytes), a Parquet artifact holds the rows written to it.
FileData(bytes)  == [t |-> "file", bytes |-> bytes, entries |-> <<>>, rows |-> {}]
ZipData(entries) == [t |-> "zip", bytes |-> <<>>, entries |-> entries, rows |-> {}]
ParquetData(rows) == [t |-> "parquet", bytes |-> <<>>, entries |-> <<>>, rows |-> rows]

Entry(name, bytes) == [name |-> name, data |-> bytes]

\* MinioBucket.exists()
BucketExists(bs, bucket_name) == bucket_name \in bs

\* MinioObject.exists()
ObjectExists(objs, bucket_name, name) == <<bucket_name, name>> \in DOMAIN objs

\* MinIOClient.make_bucket: creates the bucket unless it exists
MakeBucket(bs, bucket_name) ==
    IF ~BucketExists(bs, bucket_name) THEN bs \cup {bucket_name} ELSE bs

\* client.put_object(bucket, key, stream, length): stores the first `length`
\* bytes of the stream under the key, replacing what was there
PutObject(objs, bucket_name, file_path, data, length) ==
    [x \in DOMAIN objs \cup {<<bucket_name, file_path>>} |->
        IF x = <<bucket_name, file_path>>
        THEN FileData(SubSeq(data, 1, length))
        ELSE objs[x]]

RemoveObject(objs, x) == [y \in DOMAIN objs \ {x} |-> objs[y]]

----------------------------------------------------------------------------
(* Tabular engine *)

Garbage == 0 - 1     \* a row read from bytes that are not CSV text

NoTable == [fmt |-> "none", path |-> <<None, None>>, rows |-> {}]

\* The objects behind s3a://{bucket}/{prefix}: the object of that key when
\* there is one, else every object under the directory {prefix}/
PathObjects(objs, bucket_name, prefix) ==
    IF <<bucket_name, prefix>> \in DOMAIN objs
    THEN {<<bucket_name, prefix>>}
    ELSE {x \in DOMAIN objs :
            /\ x[1] = bucket_name
            /\ StartsWith(x[2], prefix \o <<SLASH>>)}

CsvRows(d) ==
    IF d.t = "file" THEN {d.bytes[i] : i \in 1..Len(d.bytes)} ELSE {Garbage}

\* reader.load(path) of read_csv_to_dataframe
CanReadCsv(objs, bucket_name, prefix) == PathObjects(objs, bucket_name, prefix) # {}

ReadCsvToDataframe(objs, bucket_name, prefix) ==
    [fmt  |-> "csv",
     path |-> <<bucket_name, prefix>>,
     rows |-> UNION {CsvRows(objs[x]) : x \in PathObjects(objs, bucket_name, prefix)}]

\* spark.read.parquet(path) of read_parquet_to_dataframe
CanReadParquet(objs, bucket_name, name) ==
    /\ <<bucket_name, name>> \in DOMAIN objs
    /\ objs[<<bucket_name, name>>].t = "parquet"

ReadParquetToDataframe(objs, bucket_name, name) ==
    [fmt  |-> "parquet",
     path |-> <<bucket_name, name>>,
     rows |-> objs[<<bucket_name, name>>].rows]

\* df.write.mode('overwrite').parquet(path) of dataframe_to_parquet
DataframeToParquet(objs, df, bucket_name, name) ==
    [x \in DOMAIN objs \cup {<<bucket_name, name>>} |->
        IF x = <<bucket_name, name>> THEN ParquetData(df.rows) ELSE objs[x]]

\* A mutant of CreateOrReplaceTempView: the views under other names are dropped.
CreateTempViewAlone(vs, name, df) ==
    [n \in {name} |-> df]

\* A mutant of CreateOrReplaceTempView: an existing view is kept.
CreateTempViewIfAbsent(vs, name, df) ==
    IF name \in DOMAIN vs THEN vs
    ELSE [n \in DOMAIN vs \cup {name} |-> IF n = name THEN df ELSE vs[n]]

\* df.createOrReplaceTempView(name)
CreateOrReplaceTempView(vs, name, df) ==
    [n \in DOMAIN vs \cup {name} |-> IF n = name THEN df ELSE vs[n]]

----------------------------------------------------------------------------
(* Archive expansion: the pure parts of extract_and_upload_zip *)

\* destination_prefix; destination_object is the destination's object name,
\* or None when no destination object is given
DestinationPrefix(bucket_name, name, destination_object, extract_to_bucket) ==
    IF extract_to_bucket
    THEN bucket_name
    ELSE IF destination_object # None
         THEN destination_object
         ELSE SplitextRoot(name)

\* A mutant of FilePath: the separator is left out.
FilePathNoSeparator(destination_prefix, file_name) ==
    destination_prefix \o file_name

\* f'{destination_prefix}/{file_name}'
FilePath(destination_prefix, file_name) ==
    destination_prefix \o <<SLASH>> \o file_name

----------------------------------------------------------------------------
(* Calls *)

Procs == {1, 2}

\* One record of a collaborator call made by the call in flight
Ev(op, bucket_name, key) == [op |-> op, bucket |-> bucket_name, key |-> key]

IdleCall ==
    [op        |-> "none",    \* "ingest", "extract" or "batch"
     pc        |-> "idle",
     bucket    |-> None,      \* bucket_name
     prefix    |-> None,      \* prefix
     dest      |-> None,      \* destination_bucket_name
     temp      |-> None,      \* temp_view_name
     parquet   |-> None,      \* parquet_object_name
     hit       |-> FALSE,     \* parquet_minio_object.exists() returned True
     zipkey    |-> None,      \* minio_object.name of the archive being expanded
     destobj   |-> None,      \* destination_object's name, or None
     etb       |-> FALSE,     \* extract_to_bucket
     dprefix   |-> None,      \* destination_prefix
     entries   |-> <<>>,      \* zip_ref.namelist() with each entry's bytes
     i         |-> 0,         \* position of the loop over the entries
     extracted |-> <<>>,      \* extracted_objects, as <<bucket, key>> pairs
     listed    |-> <<>>,      \* batch: the listed objects whose name ends in .zip
     todo      |-> <<>>,      \* batch: the listed archives not yet expanded
     expanded  |-> <<>>,      \* batch: the archives expanded so far
     df        |-> NoTable,   \* df
     ret       |-> NoTable,   \* the table returned
     err       |-> "none",    \* the error the call raised
     log       |-> <<>>,      \* collaborator calls made by this call
     views0    |-> <<>>]      \* the views registered when the call started

Returned(c) == c.pc \in {"idle", "done", "failed"}

\* Steps at which the next thing the call does is a collaborator call
CollaboratorSteps ==
    {"bucket_exists", "make_bucket", "object_exists", "get_object", "put_object",
     "read_csv", "to_parquet", "read_parquet", "create_view", "list_objects"}

\* Where the caller of extract_and_upload_zip continues when it returns
AfterExtract(c) ==
    CASE c.op = "ingest" -> "read_csv"
      [] c.op = "batch"  -> "next_archive"
      [] OTHER           -> "done"

----------------------------------------------------------------------------
(* ingest_file_to_datalake *)

\* The call is made: the Parquet object name is derived from the prefix.
Ingest(p, bucket_name, prefix, destination_bucket_name, temp_view_name) ==
    /\ Returned(call[p])
    /\ ncalls < MaxCalls
    /\ ncalls' = ncalls + 1
    /\ call' = [call EXCEPT ![p] =
                 [IdleCall EXCEPT !.op = "ingest",
                                  !.pc = "bucket_exists",
                                  !.bucket = bucket_name,
                                  !.prefix = prefix,
                                  !.dest = destination_bucket_name,
                                  !.temp = temp_view_name,
                                  !.parquet = ParquetObjectName(prefix),
                                  !.views0 = views]]
    /\ UNCHANGED <<buckets, objects, views, nchanges, kin, kout, csvin, csvout>>

\* A mutant of IngestBucketExists: the bucket is made whether it exists or not.
IngestBucketExistsAlwaysMakes(p) ==
    LET c == call[p] IN
    /\ c.pc = "bucket_exists"
    /\ call' = [call EXCEPT ![p] =
                 [c EXCEPT !.pc = "make_bucket",
                           !.log = Append(@, Ev("bucket_exists", c.dest, None))]]
    /\ UNCHANGED <<buckets, objects, views, ncalls, nchanges, kin, kout, csvin, csvout>>

\* if not destination_bucket.exists()
IngestBucketExists(p) ==
    LET c == call[p] IN
    /\ c.pc = "bucket_exists"
    /\ call' = [call EXCEPT ![p] =
                 [c EXCEPT !.pc = IF BucketExists(buckets, c.dest)
                                  THEN "object_exists" ELSE "make_bucket",
                           !.log = Append(@, Ev("bucket_exists", c.dest, None))]]
    /\ UNCHANGED <<buckets, objects, views, ncalls, nchanges, kin, kout, csvin, csvout>>

\* destination_bucket.make()
IngestMakeBucket(p) ==
    LET c == call[p] IN
    /\ c.pc = "make_bucket"
    /\ buckets' = MakeBucket(buckets, c.dest)
    /\ call' = [call EXCEPT ![p] =
                 [c EXCEPT !.pc = "object_exists",
                           !.log = Append(@, Ev("make_bucket", c.dest, None))]]
    /\ UNCHANGED <<objects, views, ncalls, nchanges, kin, kout, csvin, csvout>>

\* A mutant of IngestObjectExists: the existing artifact is not looked for.
IngestObjectExistsAlwaysMiss(p) ==
    LET c == call[p] IN
    /\ c.pc = "object_exists"
    /\ call' = [call EXCEPT ![p] =
                 [c EXCEPT !.hit = FALSE,
                           !.pc = IF IsZipName(c.prefix) THEN "get_object" ELSE "read_csv",
                           !.zipkey = IF IsZipName(c.prefix) THEN c.prefix ELSE None,
                           !.etb = IsZipName(c.prefix),
                           !.log = Append(@, Ev("object_exists", c.dest, c.parquet))]]
    /\ UNCHANGED <<buckets, objects, views, ncalls, nchanges, kin, kout, csvin, csvout>>

\* A mutant of IngestObjectExists: the artifact counts as found only while the
\* source object it was made from is where the call names it.
IngestObjectExistsChecksSource(p) ==
    LET c     == call[p]
        found == /\ ObjectExists(objects, c.dest, c.parquet)
                 /\ ObjectExists(objects, c.bucket, c.prefix)
        isZip == ~found /\ IsZipName(c.prefix)
    IN
    /\ c.pc = "object_exists"
    /\ call' = [call EXCEPT ![p] =
                 [c EXCEPT !.hit = found,
                           !.pc = IF found THEN "read_parquet"
                                  ELSE IF isZip THEN "get_object" ELSE "read_csv",
                           !.zipkey = IF isZip THEN c.prefix ELSE None,
                           !.etb = isZip,
                           !.log = Append(@, Ev("object_exists", c.dest, c.parquet))]]
    /\ UNCHANGED <<buckets, objects, views, ncalls, nchanges, kin, kout, csvin, csvout>>

\* if parquet_minio_object.exists(): ... else: if minio_object.name.endswith('.zip')
IngestObjectExists(p) ==
    LET c     == call[p]
        found == ObjectExists(objects, c.dest, c.parquet)
        isZip == ~found /\ IsZipName(c.prefix)
    IN
    /\ c.pc = "object_exists"
    /\ call' = [call EXCEPT ![p] =
                 [c EXCEPT !.hit = found,
                           !.pc = IF found THEN "read_parquet"
                                  ELSE IF isZip THEN "get_object" ELSE "read_csv",
                           !.zipkey = IF isZip THEN c.prefix ELSE None,
                           !.etb = isZip,
                           !.log = Append(@, Ev("object_exists", c.dest, c.parquet))]]
    /\ UNCHANGED <<buckets, objects, views, ncalls, nchanges, kin, kout, csvin, csvout>>

\* The prefix the source is loaded from: the archive's name without its
\* extension after an expansion, else the prefix given
LoadPrefix(c) ==
    IF IsZipName(c.prefix) THEN SplitextRoot(c.prefix) ELSE c.prefix

\* A mutant of IngestReadCsv: the view is registered over the table just loaded.
IngestReadCsvRegisters(p) ==
    LET c == call[p] IN
    /\ c.pc = "read_csv"
    /\ CanReadCsv(objects, c.bucket, LoadPrefix(c))
    /\ call' = [call EXCEPT ![p] =
                 [c EXCEPT !.pc = "to_parquet",
                           !.df = ReadCsvToDataframe(objects, c.bucket, LoadPrefix(c)),
                           !.log = Append(@, Ev("read_csv", c.bucket, LoadPrefix(c)))]]
    /\ views' = CreateOrReplaceTempView(views, ResolveViewName(c.prefix, c.temp),
                                        ReadCsvToDataframe(objects, c.bucket, LoadPrefix(c)))
    /\ UNCHANGED <<buckets, objects, ncalls, nchanges, kin, kout, csvin, csvout>>

\* df = self.read_csv_to_dataframe(...); the load raises when nothing is at the path
IngestReadCsv(p) ==
    LET c == call[p] IN
    /\ c.pc = "read_csv"
    /\ call' = [call EXCEPT ![p] =
                 IF CanReadCsv(objects, c.bucket, LoadPrefix(c))
                 THEN [c EXCEPT !.pc = "to_parquet",
                                !.df = ReadCsvToDataframe(objects, c.bucket, LoadPrefix(c)),
                                !.log = Append(@, Ev("read_csv", c.bucket, LoadPrefix(c)))]
                 ELSE [c EXCEPT !.pc = "failed",
                                !.err = "path_not_found",
                                !.log = Append(@, Ev("read_csv", c.bucket, LoadPrefix(c)))]]
    /\ UNCHANGED <<buckets, objects, views, ncalls, nchanges, kin, kout, csvin, csvout>>

\* A mutant of IngestToParquet: an existing artifact is not overwritten.
IngestToParquetIfAbsent(p) ==
    LET c == call[p] IN
    /\ c.pc = "to_parquet"
    /\ objects' = IF ObjectExists(objects, c.dest, c.parquet) THEN objects
                  ELSE DataframeToParquet(objects, c.df, c.dest, c.parquet)
    /\ call' = [call EXCEPT ![p] =
                 [c EXCEPT !.pc = "read_parquet",
                           !.log = IF ObjectExists(objects, c.dest, c.parquet) THEN @
                                   ELSE Append(@, Ev("to_parquet", c.dest, c.parquet))]]
    /\ UNCHANGED <<buckets, views, ncalls, nchanges, kin, kout, csvin, csvout>>

\* A mutant of IngestToParquet: the table is not written, and the call goes on
\* to register the view over the table loaded from the source.
IngestToParquetSkipped(p) ==
    LET c == call[p] IN
    /\ c.pc = "to_parquet"
    /\ call' = [call EXCEPT ![p] = [c EXCEPT !.pc = "create_view"]]
    /\ UNCHANGED <<buckets, objects, views, ncalls, nchanges, kin, kout, csvin, csvout>>

\* self.dataframe_to_parquet(df, parquet_minio_object)
IngestToParquet(p) ==
    LET c == call[p] IN
    /\ c.pc = "to_parquet"
    /\ objects' = DataframeToParquet(objects, c.df, c.dest, c.parquet)
    /\ call' = [call EXCEPT ![p] =
                 [c EXCEPT !.pc = "read_parquet",
                           !.log = Append(@, Ev("to_parquet", c.dest, c.parquet))]]
    /\ UNCHANGED <<buckets, views, ncalls, nchanges, kin, kout, csvin, csvout>>

\* A mutant of IngestReadParquet: the table already loaded is kept after a
\* miss, and the artifact is not read back.
IngestReadParquetKeepsDf(p) ==
    LET c == call[p] IN
    /\ c.pc = "read_parquet"
    /\ call' = [call EXCEPT ![p] =
                 IF c.hit
                 THEN IF CanReadParquet(objects, c.dest, c.parquet)
                      THEN [c EXCEPT !.pc = "create_view",
                                     !.df = ReadParquetToDataframe(objects, c.dest, c.parquet),
                                     !.log = Append(@, Ev("read_parquet", c.dest, c.parquet))]
                      ELSE [c EXCEPT !.pc = "failed", !.err = "path_not_found"]
                 ELSE [c EXCEPT !.pc = "create_view"]]
    /\ UNCHANGED <<buckets, objects, views, ncalls, nchanges, kin, kout, csvin, csvout>>

\* df = self.read_parquet_to_dataframe(parquet_minio_object), on a hit and
\* after the write; the read raises when no Parquet data is at the path
IngestReadParquet(p) ==
    LET c == call[p] IN
    /\ c.pc = "read_parquet"
    /\ call' = [call EXCEPT ![p] =
                 IF CanReadParquet(objects, c.dest, c.parquet)
                 THEN [c EXCEPT !.pc = "create_view",
                                !.df = ReadParquetToDataframe(objects, c.dest, c.parquet),
                                !.log = Append(@, Ev("read_parquet", c.dest, c.parquet))]
                 ELSE [c EXCEPT !.pc = "failed",
                                !.err = "path_not_found",
                                !.log = Append(@, Ev("read_parquet", c.dest, c.parquet))]]
    /\ UNCHANGED <<buckets, objects, views, ncalls, nchanges, kin, kout, csvin, csvout>>

\* df.createOrReplaceTempView(temp_view_name); return df
IngestCreateView(p) ==
    LET c == call[p] IN
    /\ c.pc = "create_view"
    /\ views' = CreateOrReplaceTempView(views, ResolveViewName(c.prefix, c.temp), c.df)
    /\ call' = [call EXCEPT ![p] =
                 [c EXCEPT !.pc = "done",
                           !.ret = c.df,
                           !.log = Append(@, Ev("create_view", None,
                                                ResolveViewName(c.prefix, c.temp)))]]
    /\ UNCHANGED <<buckets, objects, ncalls, nchanges, kin, kout, csvin, csvout>>

\* A mutant of Fail: an error raised while an archive of a batch is expanded
\* is swallowed, and the batch goes on with the next archive.
FailIsolatedPerArchive(p) ==
    LET c == call[p] IN
    /\ c.pc \in CollaboratorSteps
    /\ call' = [call EXCEPT ![p] =
                 IF c.op = "batch" /\ c.pc \in {"get_object", "put_object"}
                 THEN [c EXCEPT !.pc = "next_archive"]
                 ELSE [c EXCEPT !.pc = "failed", !.err = "collaborator"]]
    /\ UNCHANGED <<buckets, objects, views, ncalls, nchanges, kin, kout, csvin, csvout>>

\* A mutant of Fail: when the writing of an entry raises, the objects written
\* for the entries before it are removed.
FailRollsBack(p) ==
    LET c == call[p]
        written == { c.extracted[j] : j \in 1..Len(c.extracted) }
    IN
    /\ c.pc \in CollaboratorSteps
    /\ call' = [call EXCEPT ![p] = [c EXCEPT !.pc = "failed", !.err = "collaborator"]]
    /\ objects' = IF c.pc = "put_object"
                  THEN [x \in DOMAIN objects \ written |-> objects[x]]
                  ELSE objects
    /\ UNCHANGED <<buckets, views, ncalls, nchanges, kin, kout, csvin, csvout>>

\* A collaborator call raises (a storage or engine error): nothing in the
\* methods catches it, so it propagates out of the call.
Fail(p) ==
    LET c == call[p] IN
    /\ c.pc \in CollaboratorSteps
    /\ call' = [call EXCEPT ![p] = [c EXCEPT !.pc = "failed", !.err = "collaborator"]]
    /\ UNCHANGED <<buckets, objects, views, ncalls, nchanges, kin, kout, csvin, csvout>>

----------------------------------------------------------------------------
(* extract_and_upload_zip *)

\* zip_buffer = BytesIO(client.get_object(...).read()); destination_prefix;
\* zipfile.ZipFile(zip_buffer): raises when the object is missing or no archive
ExtractGetObject(p) ==
    LET c == call[p]
        x == <<c.bucket, c.zipkey>>
        ok == x \in DOMAIN objects /\ objects[x].t = "zip"
    IN
    /\ c.pc = "get_object"
    /\ call' = [call EXCEPT ![p] =
                 IF ok
                 THEN [c EXCEPT !.dprefix = DestinationPrefix(c.bucket, c.zipkey,
                                                              c.destobj, c.etb),
                                !.entries = objects[x].entries,
                                !.i = 1,
                                !.extracted = <<>>,
                                !.pc = IF objects[x].entries = <<>>
                                       THEN AfterExtract(c) ELSE "put_object",
                                !.expanded = IF objects[x].entries = <<>>
                                             THEN Append(@, c.zipkey) ELSE @,
                                !.log = Append(@, Ev("get_object", c.bucket, c.zipkey))]
                 ELSE [c EXCEPT !.pc = "failed",
                                !.err = IF x \in DOMAIN objects
                                        THEN "bad_zip_file" ELSE "no_such_key",
                                !.log = Append(@, Ev("get_object", c.bucket, c.zipkey))]]
    /\ UNCHANGED <<buckets, objects, views, ncalls, nchanges, kin, kout, csvin, csvout>>

\* One turn of the loop over zip_ref.namelist()
ExtractPutObject(p) ==
    LET c == call[p]
        e == c.entries[c.i]
        file_path == FilePath(c.dprefix, e.name)
        last == c.i = Len(c.entries)
    IN
    /\ c.pc = "put_object"
    /\ c.i \in 1..Len(c.entries)
    /\ objects' = PutObject(objects, c.bucket, file_path, e.data, Len(e.data))
    /\ call' = [call EXCEPT ![p] =
                 [c EXCEPT !.extracted = Append(@, <<c.bucket, file_path>>),
                           !.i = c.i + 1,
                           !.pc = IF last THEN AfterExtract(c) ELSE "put_object",
                           !.expanded = IF last THEN Append(@, c.zipkey) ELSE @,
                           !.log = Append(@, Ev("put_object", c.bucket, file_path))]]
    /\ UNCHANGED <<buckets, views, ncalls, nchanges, kin, kout, csvin, csvout>>

----------------------------------------------------------------------------
(* read_csv_to_dataframe: the reader it builds *)

\* path = f's3a://{bucket_name}/{prefix}'
S3aPath(bucket_name, prefix) ==
    <<"s", "3", "a", ":", "/", "/">> \o bucket_name \o <<"/">> \o prefix

\* reader.option(key, value): the option is set, over any value it had
Option(options, key, value) ==
    [k \in DOMAIN options \cup {key} |-> IF k = key THEN value ELSE options[k]]

\* option_args is None, or a dictionary: its items in insertion order
OptionArgsNone == [none |-> TRUE, items |-> <<>>]
OptionArgs(items) == [none |-> FALSE, items |-> items]

\* option_args = {'header': 'true', 'inferSchema': 'true'}
DefaultOptionArgs ==
    OptionArgs(<< <<"header", "true">>, <<"inferSchema", "true">> >>)

\* for key, value in option_args.items(): reader = reader.option(key, value)
RECURSIVE ApplyOptions(_, _)
ApplyOptions(options, items) ==
    IF items = <<>> THEN options
    ELSE ApplyOptions(Option(options, items[1][1], items[1][2]), Tail(items))

\* A mutant of CsvReader: the delimiter is set before the caller's options.
CsvReaderDelimiterFirst(bucket_name, prefix, delimiter, format_source, option_args) ==
    LET args == IF option_args.none THEN DefaultOptionArgs ELSE option_args IN
    [format  |-> format_source,
     options |-> ApplyOptions(Option(<<>>, "delimiter", delimiter), args.items),
     path    |-> S3aPath(bucket_name, prefix)]

\* The reader read_csv_to_dataframe loads with: its format, its options and
\* the path it is given
CsvReader(bucket_name, prefix, delimiter, format_source, option_args) ==
    LET args == IF option_args.none THEN DefaultOptionArgs ELSE option_args IN
    [format  |-> format_source,
     options |-> Option(ApplyOptions(<<>>, args.items), "delimiter", delimiter),
     path    |-> S3aPath(bucket_name, prefix)]

NoCsvArgs == [bucket_name |-> None, prefix |-> None, delimiter |-> "",
              format_source |-> "", option_args |-> OptionArgsNone]
NoReader  == [format |-> "", options |-> <<>>, path |-> <<>>]

----------------------------------------------------------------------------
(* The store the calls start from, and the arguments they are given *)

RAW   == <<"r">>     \* the bucket holding the sources
STAGE == <<"s">>     \* the default destination bucket

KCsv    == <<"k", ".", "c", "s", "v">>
KZip    == <<"k", ".", "z", "i", "p">>
KUpper  == <<"k", ".", "Z", "I", "P">>
KPlain  == <<"k">>
RZip    == <<"r", ".", "z", "i", "p">>
RACsv   == <<"r", "/", "a", ".", "c", "s", "v">>

ACsv     == <<"a", ".", "c", "s", "v">>
DirD     == <<"d", "/">>
DBCsv    == <<"d", "/", "b", ".", "c", "s", "v">>
AParquet == <<"a">> \o ParquetSuffix

ViewV == <<"v">>

\* RAW holds a CSV file, an archive of two CSV entries and a directory marker,
\* the same kind of archive under an upper-case suffix, an archive named after
\* the bucket, and a CSV file left under the key r/a.csv.
InitObjects ==
    (<<RAW, KCsv>>   :> FileData(<<1, 2>>)) @@
    (<<RAW, KZip>>   :> ZipData(<<Entry(ACsv, <<3, 4>>), Entry(DirD, <<>>),
                                  Entry(DBCsv, <<5>>)>>)) @@
    (<<RAW, KUpper>> :> ZipData(<<Entry(ACsv, <<3, 4>>)>>)) @@
    (<<RAW, RZip>>   :> ZipData(<<Entry(AParquet, <<7>>)>>)) @@
    (<<RAW, RACsv>>  :> FileData(<<6>>))

SourceBuckets == {RAW, STAGE}
SourceKeys    == {KCsv, KZip, KUpper, KPlain, RZip, RACsv}
DestBuckets   == {STAGE, RAW}
ViewNames     == {None, ViewV}

Init ==
    /\ buckets = {RAW}
    /\ objects = InitObjects
    /\ views = <<>>
    /\ call = [p \in Procs |-> IdleCall]
    /\ ncalls = 0
    /\ nchanges = 0
    /\ kin = <<None, None>>
    /\ kout = <<None, None>>
    /\ csvin = NoCsvArgs
    /\ csvout = NoReader

\* Outside the program, the source object k.csv is replaced or removed between
\* calls.
SourceChange ==
    /\ \A p \in Procs : Returned(call[p])
    /\ nchanges < MaxChanges
    /\ nchanges' = nchanges + 1
    /\ \E x \in {<<RAW, KCsv>>} \cap DOMAIN objects :
          \/ objects' = RemoveObject(objects, x)
          \/ /\ objects[x].t = "file"
             /\ objects' = [objects EXCEPT ![x] = FileData(<<9>>)]
    /\ UNCHANGED <<buckets, views, call, ncalls, kin, kout, csvin, csvout>>

IngestStep(p) ==
    \/ IngestBucketExists(p)
    \/ IngestMakeBucket(p)
    \/ IngestObjectExists(p)
    \/ ExtractGetObject(p)
    \/ ExtractPutObject(p)
    \/ IngestReadCsv(p)
    \/ IngestToParquet(p)
    \/ IngestReadParquet(p)
    \/ IngestCreateView(p)
    \/ Fail(p)

\* Sequential calls of ingest_file_to_datalake by one caller
IngestCall ==
    \E b \in SourceBuckets, k \in SourceKeys, d \in DestBuckets, v \in ViewNames :
        Ingest(1, b, k, d, v)

Next ==
    \/ IngestCall
    \/ IngestStep(1)
    \/ SourceChange

Spec == Init /\ [][Next]_vars

----------------------------------------------------------------------------
(* extract_and_upload_zip called directly, and extract_and_upload_zip_by_prefix *)

\* The characters of the keys in use, in code-point order
Chars ==
    <<".", "/", "I", "P", "Z", "a", "b", "c", "d", "e", "i", "k", "o", "p", "q",
      "r", "s", "t", "u", "v", "z">>

CharRank(ch) == CHOOSE i \in 1..Len(Chars) : Chars[i] = ch

\* s < t in the order the store lists keys (UTF-8 binary order)
KeyLess(s, t) ==
    \E n \in 0..Len(s) :
        /\ n <= Len(t)
        /\ \A j \in 1..n : s[j] = t[j]
        /\ \/ n = Len(s) /\ n < Len(t)
           \/ n < Len(s) /\ n < Len(t) /\ CharRank(s[n + 1]) < CharRank(t[n + 1])

RECURSIVE SortedKeys(_)
SortedKeys(ks) ==
    IF ks = {} THEN <<>>
    ELSE LET least == CHOOSE k \in ks : \A o \in ks \ {k} : KeyLess(k, o)
         IN  <<least>> \o SortedKeys(ks \ {least})

\* client.list_objects(bucket_name, prefix=prefix), in listing order
ListObjects(objs, bucket_name, prefix) ==
    SortedKeys({x[2] : x \in {y \in DOMAIN objs :
                                 y[1] = bucket_name /\ StartsWith(y[2], prefix)}})

\* extract_and_upload_zip is called on an archive object.
Extract(p, bucket_name, name, destination_object, extract_to_bucket) ==
    /\ Returned(call[p])
    /\ ncalls < MaxCalls
    /\ ncalls' = ncalls + 1
    /\ call' = [call EXCEPT ![p] =
                 [IdleCall EXCEPT !.op = "extract",
                                  !.pc = "get_object",
                                  !.bucket = bucket_name,
                                  !.zipkey = name,
                                  !.destobj = destination_object,
                                  !.etb = extract_to_bucket,
                                  !.views0 = views]]
    /\ UNCHANGED <<buckets, objects, views, nchanges, kin, kout, csvin, csvout>>

\* extract_and_upload_zip_by_prefix is called.
ExtractByPrefix(p, bucket_name, prefix, extract_to_bucket) ==
    /\ Returned(call[p])
    /\ ncalls < MaxCalls
    /\ ncalls' = ncalls + 1
    /\ call' = [call EXCEPT ![p] =
                 [IdleCall EXCEPT !.op = "batch",
                                  !.pc = "list_objects",
                                  !.bucket = bucket_name,
                                  !.prefix = prefix,
                                  !.etb = extract_to_bucket,
                                  !.views0 = views]]
    /\ UNCHANGED <<buckets, objects, views, nchanges, kin, kout, csvin, csvout>>

\* objects = self.client.list_objects(bucket_name, prefix=prefix); the loop
\* below passes over every listed object whose name does not end in '.zip'
BatchListObjects(p) ==
    LET c == call[p] IN
    /\ c.pc = "list_objects"
    /\ call' = [call EXCEPT ![p] =
                 [c EXCEPT !.listed = SelectSeq(ListObjects(objects, c.bucket, c.prefix),
                                                IsZipName),
                           !.todo = SelectSeq(ListObjects(objects, c.bucket, c.prefix),
                                              IsZipName),
                           !.pc = "next_archive",
                           !.log = Append(@, Ev("list_objects", c.bucket, c.prefix))]]
    /\ UNCHANGED <<buckets, objects, views, ncalls, nchanges, kin, kout, csvin, csvout>>

\* for obj in objects: if obj.object_name.endswith('.zip'):
\*     self.extract_and_upload_zip(minio_object, extract_to_bucket=extract_to_bucket)
BatchNextArchive(p) ==
    LET c == call[p] IN
    /\ c.pc = "next_archive"
    /\ call' = [call EXCEPT ![p] =
                 IF c.todo = <<>>
                 THEN [c EXCEPT !.pc = "done"]
                 ELSE [c EXCEPT !.zipkey = Head(c.todo),
                                !.todo = Tail(c.todo),
                                !.destobj = None,
                                !.dprefix = None,
                                !.entries = <<>>,
                                !.i = 0,
                                !.extracted = <<>>,
                                !.pc = "get_object"]]
    /\ UNCHANGED <<buckets, objects, views, ncalls, nchanges, kin, kout, csvin, csvout>>

DestObjO == <<"o">>

ArchiveNames  == {KZip, RZip, KCsv, KPlain}
DestObjects   == {None, DestObjO}
BatchPrefixes == {<<>>, <<"k">>, <<"r">>}

ExtractCall ==
    \E k \in ArchiveNames, o \in DestObjects, e \in BOOLEAN : Extract(1, RAW, k, o, e)

ExtractByPrefixCall ==
    \E x \in BatchPrefixes, e \in BOOLEAN : ExtractByPrefix(1, RAW, x, e)

NextZip ==
    \/ ExtractCall
    \/ ExtractByPrefixCall
    \/ BatchListObjects(1)
    \/ BatchNextArchive(1)
    \/ ExtractGetObject(1)
    \/ ExtractPutObject(1)
    \/ Fail(1)

\* Sequential archive expansions by one caller
SpecZip == Init /\ [][NextZip]_vars

----------------------------------------------------------------------------
(* Two callers of ingest_file_to_datalake at once *)

ConcKeys == {KCsv, KUpper, RZip}

ConcIngestCall ==
    \E p \in Procs, k \in ConcKeys : Ingest(p, RAW, k, STAGE, None)

NextConc ==
    \/ ConcIngestCall
    \/ \E p \in Procs : IngestStep(p)

SpecConc == Init /\ [][NextConc]_vars

----------------------------------------------------------------------------
(* The names ingest_file_to_datalake derives, over every short key *)

KeyChars == {"a", DOT, SLASH}

AllKeys == UNION {[1..n -> KeyChars] : n \in 1..MaxKeyLen}

InitKey ==
    /\ buckets = {RAW}
    /\ objects = InitObjects
    /\ views = <<>>
    /\ call = [p \in Procs |-> IdleCall]
    /\ ncalls = 0
    /\ nchanges = 0
    /\ kin \in AllKeys \X ViewNames
    /\ kout = <<None, None>>
    /\ csvin = NoCsvArgs
    /\ csvout = NoReader

\* parquet_object_name = f'{os.path.splitext(prefix)[0]}.parquet' and
\* temp_view_name = os.path.splitext(prefix)[0] when none is given
DeriveNames ==
    /\ kout = <<None, None>>
    /\ kout' = <<ParquetObjectName(kin[1]), ResolveViewName(kin[1], kin[2])>>
    /\ UNCHANGED <<buckets, objects, views, call, ncalls, nchanges, kin, csvin, csvout>>

SpecKey == InitKey /\ [][DeriveNames]_vars

----------------------------------------------------------------------------
(* Expansions on their own and inside ingest_file_to_datalake *)

ExpandIngestCall ==
    \E k \in {KZip, RZip}, d \in DestBuckets : Ingest(1, RAW, k, d, None)

NextExpand ==
    \/ ExtractCall
    \/ ExpandIngestCall
    \/ IngestStep(1)

\* Sequential calls of extract_and_upload_zip and of ingest_file_to_datalake
\* on archives, by one caller
SpecExpand == Init /\ [][NextExpand]_vars

----------------------------------------------------------------------------
(* The CSV load on its own: read_csv_to_dataframe over small arguments *)

Delimiters    == {",", ";"}
FormatSources == {"csv", "json"}
OptionItems   == { <<"header", "false">>, <<"inferSchema", "false">>,
                   <<"delimiter", "|">>, <<"quote", "'">> }

\* The dictionaries of at most MaxOptions items: no key twice
OptionDicts ==
    { d \in UNION { [1..n -> OptionItems] : n \in 0..MaxOptions } :
        \A i, j \in 1..Len(d) : i # j => d[i][1] # d[j][1] }

AllOptionArgs == {OptionArgsNone} \cup { OptionArgs(d) : d \in OptionDicts }

InitCsv ==
    /\ buckets = {RAW}
    /\ objects = InitObjects
    /\ views = <<>>
    /\ call = [p \in Procs |-> IdleCall]
    /\ ncalls = 0
    /\ nchanges = 0
    /\ kin = <<None, None>>
    /\ kout = <<None, None>>
    /\ csvin \in [bucket_name : SourceBuckets, prefix : {KCsv, KPlain},
                  delimiter : Delimiters, format_source : FormatSources,
                  option_args : AllOptionArgs]
    /\ csvout = NoReader

\* read_csv_to_dataframe builds its reader and loads
BuildCsvReader ==
    /\ csvout = NoReader
    /\ csvout' = CsvReader(csvin.bucket_name, csvin.prefix, csvin.delimiter,
                           csvin.format_source, csvin.option_args)
    /\ UNCHANGED <<buckets, objects, views, call, ncalls, nchanges, kin, kout, csvin>>

SpecCsv == InitCsv /\ [][BuildCsvReader]_vars

----------------------------------------------------------------------------
(* Properties *)

\* The operations named in a call's log, in order
LogOps(c) == [j \in 1..Len(c.log) |-> c.log[j].op]

Logged(c, op) == \E j \in 1..Len(c.log) : c.log[j].op = op

\* The objects that are canonical artifacts: only the Parquet writer stores
\* Parquet data
IsArtifact(objs, x) == x \in DOMAIN objs /\ objs[x].t = "parquet"

\* The key ends in the four characters ".zip"
HasArchiveSuffix(k) ==
    /\ Len(k) >= 4
    /\ k[Len(k) - 3] = "." /\ k[Len(k) - 2] = "z"
    /\ k[Len(k) - 1] = "i" /\ k[Len(k)] = "p"

\* The extension of key k starts at position n: a dot with no dot or slash
\* after it, and with a character other than a dot before it in the file name
ExtensionAt(k, n) ==
    /\ n \in 1..Len(k)
    /\ k[n] = "."
    /\ \A j \in (n + 1)..Len(k) : k[j] # "." /\ k[j] # "/"
    /\ \E j \in 1..(n - 1) :
          /\ k[j] # "."
          /\ \A m \in j..n : k[m] # "/"

\* root is key k with its file extension, if it has one, stripped
ExtensionStripped(k, root) ==
    \/ \E n \in 1..Len(k) : ExtensionAt(k, n) /\ root = SubSeq(k, 1, n - 1)
    \/ (\A n \in 1..Len(k) : ~ExtensionAt(k, n)) /\ root = k

\* The step is one by caller p from position `from`
Steps(p, from) == call[p].pc = from /\ call'[p].pc # from

\* C1 (as stated): a call made while the canonical artifact exists expands no
\* archive, loads no source and persists nothing, and over any sequence of
\* sequential ingest calls the contents of an existing canonical artifact
\* never change.
C1_AsStated ==
    /\ [](\A p \in Procs :
            call[p].hit => ~(\/ Logged(call[p], "get_object")
                             \/ Logged(call[p], "put_object")
                             \/ Logged(call[p], "read_csv")
                             \/ Logged(call[p], "to_parquet")))
    /\ [][\A x \in DOMAIN objects :
            IsArtifact(objects, x) => x \in DOMAIN objects' /\ objects'[x] = objects[x]]_vars

\* C1 (amended): a call made while the canonical artifact exists goes from the
\* existence check straight to the load of the artifact, and makes no
\* get_object, put_object, source load or persist; over sequential ingest
\* calls no persist ever replaces an existing canonical artifact: the only
\* step that changes one is an archive expansion's put_object onto its key.
C1_HitOnlyLoads ==
    /\ [](\A p \in Procs :
            call[p].hit => ~(\/ Logged(call[p], "get_object")
                             \/ Logged(call[p], "put_object")
                             \/ Logged(call[p], "read_csv")
                             \/ Logged(call[p], "to_parquet")))
    /\ [][\A p \in Procs :
            (Steps(p, "object_exists") /\ IsArtifact(objects, <<call[p].dest, call[p].parquet>>))
                => call'[p].pc \in {"read_parquet", "failed"}]_vars
    /\ [][\A x \in DOMAIN objects :
            (IsArtifact(objects, x) /\ ~(x \in DOMAIN objects' /\ objects'[x] = objects[x]))
                => \E p \in Procs :
                      /\ call[p].pc = "put_object"
                      /\ call'[p].i = call[p].i + 1
                      /\ x = <<call[p].bucket,
                               call[p].dprefix \o <<"/">> \o call[p].entries[call[p].i].name>>]_vars

\* C1 witness: a call has returned after a cache hit on an artifact whose
\* source object has since been replaced or removed.
C1_Witness ==
    /\ call[1].op = "ingest" /\ call[1].pc = "done" /\ call[1].hit
    /\ call[1].prefix = KCsv /\ call[1].bucket = RAW
    /\ call[1].ret.rows = {1, 2}
    /\ LogOps(call[1]) = <<"bucket_exists", "object_exists", "read_parquet", "create_view">>
    /\ \/ <<RAW, KCsv>> \notin DOMAIN objects
       \/ objects[<<RAW, KCsv>>] = FileData(<<9>>)

\* The rows of the CSV entries of an archive
EntryRows(d) ==
    UNION {{d.entries[j].data[m] : m \in 1..Len(d.entries[j].data)} :
              j \in 1..Len(d.entries)}

\* C2: with the archive k.zip of CSV entries in the source bucket and the
\* destination bucket absent, ingest(RAW, k.zip, STAGE) raises no error of its
\* own and, once returned, leaves the destination bucket existing, the
\* artifact STAGE/k.parquet holding exactly the rows of the archive's entries,
\* and a view named k returning those rows.
C2_ArchiveEndToEnd ==
    LET c == call[1] IN
    (/\ c.op = "ingest" /\ ncalls = 1
     /\ c.bucket = RAW /\ c.prefix = KZip /\ c.dest = STAGE /\ c.temp = None)
    => /\ c.err \in {"none", "collaborator"}
       /\ c.pc = "done" =>
            /\ STAGE \in buckets
            /\ <<STAGE, <<"k">> \o ParquetSuffix>> \in DOMAIN objects
            /\ objects[<<STAGE, <<"k">> \o ParquetSuffix>>]
                 = ParquetData(EntryRows(InitObjects[<<RAW, KZip>>]))
            /\ <<"k">> \in DOMAIN views
            /\ views[<<"k">>].rows = EntryRows(InitObjects[<<RAW, KZip>>])

\* C3: the Parquet object name derived from a source key is the key with its
\* file extension replaced by ".parquet" (appended when the key has no
\* extension), whatever view name is given.
C3_CanonicalKey ==
    kout # <<None, None>> =>
        \E n \in 0..Len(kin[1]) :
            /\ ExtensionStripped(kin[1], SubSeq(kin[1], 1, n))
            /\ kout[1] = SubSeq(kin[1], 1, n) \o <<".", "p", "a", "r", "q", "u", "e", "t">>

\* C3 witness: the key a/a.a has been given and a/a.parquet derived from it.
C3_Witness ==
    /\ kin[1] = <<"a", "/", "a", ".", "a">>
    /\ kout[1] = <<"a", "/", "a", ".", "p", "a", "r", "q", "u", "e", "t">>

\* The part of a call's log after its check for the artifact
AfterCheck(c) ==
    LET at == {j \in 1..Len(c.log) : c.log[j].op = "object_exists"}
    IN  IF at = {} THEN <<>>
        ELSE SubSeq(c.log, (CHOOSE j \in at : TRUE) + 1, Len(c.log))

\* C4: after a miss, a key ending in ".zip" takes the EXPAND path (get_object,
\* the put_objects, then one load of the key without its extension) and any
\* other key takes the DIRECT path (one load of the key itself, no expansion);
\* after a hit neither is taken.
C4_PathBySuffix ==
    LET c == call[1]
        a == AfterCheck(c)
    IN
    (c.op = "ingest" /\ a # <<>>) =>
        /\ c.hit =>
             \A j \in 1..Len(a) : a[j].op \notin {"get_object", "put_object", "read_csv"}
        /\ (~c.hit /\ HasArchiveSuffix(c.prefix)) =>
             /\ a[1] = Ev("get_object", c.bucket, c.prefix)
             /\ \A j \in 2..Len(a) :
                  \/ a[j].op = "put_object" /\ a[j - 1].op \in {"get_object", "put_object"}
                  \/ /\ a[j] = Ev("read_csv", c.bucket, SubSeq(c.prefix, 1, Len(c.prefix) - 4))
                     /\ a[j - 1].op \in {"get_object", "put_object"}
                  \/ a[j].op \in {"to_parquet", "read_parquet", "create_view"}
        /\ (~c.hit /\ ~HasArchiveSuffix(c.prefix)) =>
             /\ a[1] = Ev("read_csv", c.bucket, c.prefix)
             /\ \A j \in 2..Len(a) :
                  a[j].op \in {"to_parquet", "read_parquet", "create_view"}

\* C4 witness: a miss on the key k.ZIP has loaded the object k.ZIP itself.
C4_Witness ==
    /\ call[1].op = "ingest" /\ ~call[1].hit
    /\ call[1].prefix = KUpper
    /\ call[1].pc = "done"
    /\ LogOps(call[1]) = <<"bucket_exists", "make_bucket", "object_exists", "read_csv",
                           "to_parquet", "read_parquet", "create_view">>

\* C5: a returned call has registered exactly one view name: the source key
\* with its extension stripped when no view name was given, else the name
\* given, and the derived name is then not registered.
C5_ViewName ==
    LET c == call[1] IN
    (c.op = "ingest" /\ c.pc = "done") =>
        \E name \in DOMAIN views :
            /\ IF c.temp = None THEN ExtensionStripped(c.prefix, name) ELSE name = c.temp
            /\ views[name] = c.ret
            /\ DOMAIN views = DOMAIN c.views0 \cup {name}

\* C5 witness: r/a.csv was ingested with no view name and the only view is r/a.
C5_Witness ==
    /\ call[1].op = "ingest" /\ call[1].pc = "done"
    /\ call[1].prefix = RACsv /\ call[1].temp = None
    /\ DOMAIN views = {<<"r", "/", "a">>}

\* C6: for every entry of the archive written so far, in archive order, the
\* returned list holds one reference to the archive's own bucket at key
\* {destination_prefix}/{entry name}, and the object there holds the entry's
\* bytes at their full length; a call that has returned has one reference per
\* entry.
C6_EntriesUploaded ==
    LET c  == call[1]
        es == InitObjects[<<c.bucket, c.zipkey>>].entries
    IN
    (c.op \in {"extract", "batch"} /\ c.dprefix # None) =>
        /\ Len(c.extracted) = c.i - 1
        /\ Len(c.extracted) <= Len(es)
        /\ (c.pc \in {"done", "next_archive"}) => Len(c.extracted) = Len(es)
        /\ \A j \in 1..Len(c.extracted) :
              /\ c.extracted[j] = <<c.bucket, c.dprefix \o <<"/">> \o es[j].name>>
              /\ c.extracted[j] \in DOMAIN objects
              /\ objects[c.extracted[j]].t = "file"
              /\ objects[c.extracted[j]].bytes = es[j].data
              /\ Len(objects[c.extracted[j]].bytes) = Len(es[j].data)

\* C6 witness: k.zip has been expanded under the prefix o of its bucket: the
\* objects o/a.csv, o/d/ and o/d/b.csv are returned, in that order.
C6_Witness ==
    /\ call[1].op = "extract" /\ call[1].pc = "done"
    /\ call[1].zipkey = KZip /\ call[1].dprefix = DestObjO
    /\ call[1].extracted = << <<RAW, <<"o", "/", "a", ".", "c", "s", "v">>>>,
                              <<RAW, <<"o", "/", "d", "/">>>>,
                              <<RAW, <<"o", "/", "d", "/", "b", ".", "c", "s", "v">>>> >>
    /\ objects[<<RAW, <<"o", "/", "d", "/", "b", ".", "c", "s", "v">>>>] = FileData(<<5>>)
    /\ objects[<<RAW, <<"o", "/", "d", "/">>>>] = FileData(<<>>)

\* C7: every call that has returned successfully, after a hit or after a miss,
\* has a view under the resolved view name, and that view is the table the
\* call returns: the table loaded from the canonical artifact.
C7_ViewIsReturnedTable ==
    LET c == call[1]
        n == ResolveViewName(c.prefix, c.temp)
    IN
    (c.op = "ingest" /\ c.pc = "done") =>
        /\ n \in DOMAIN views
        /\ views[n] = c.ret
        /\ IsArtifact(objects, <<c.dest, c.parquet>>)
        /\ c.ret = [fmt  |-> "parquet",
                    path |-> <<c.dest, c.parquet>>,
                    rows |-> objects[<<c.dest, c.parquet>>].rows]

\* C7 witness: after a call that missed, persisted and registered the view k,
\* a call has returned after a hit and registered the view v over the artifact.
C7_Witness ==
    /\ call[1].op = "ingest" /\ call[1].pc = "done" /\ call[1].hit
    /\ call[1].temp = ViewV
    /\ DOMAIN call[1].views0 = {<<"k">>}
    /\ views[ViewV] = call[1].ret
    /\ views[ViewV].rows = {1, 2}

\* C8: a caller that evaluated the check as a miss persists unconditionally:
\* its persist step leaves the artifact holding its own table, also when the
\* other caller has persisted the artifact since the check.
C8_LastWriterWins ==
    [][\A p \in Procs :
         (Steps(p, "to_parquet") /\ call'[p].pc = "read_parquet") =>
            /\ ~call[p].hit
            /\ <<call[p].dest, call[p].parquet>> \in DOMAIN objects'
            /\ objects'[<<call[p].dest, call[p].parquet>>] = ParquetData(call[p].df.rows)]_vars

\* C8 witness: both callers ingested the same uncached source into the same
\* bucket, both missed, and both have persisted the artifact.
C8_Witness ==
    /\ call[1].op = "ingest" /\ call[2].op = "ingest"
    /\ call[1].prefix = KCsv /\ call[2].prefix = KCsv
    /\ call[1].bucket = call[2].bucket /\ call[1].dest = call[2].dest
    /\ ~call[1].hit /\ ~call[2].hit
    /\ Logged(call[1], "to_parquet") /\ Logged(call[2], "to_parquet")
    /\ call[1].pc = "done" /\ call[2].pc = "done"

\* C9: an ingest call registers no view before it returns successfully: while
\* it runs, and after any error has propagated out of it, the registered views
\* and their tables are those of the moment the call was made, and no table is
\* returned.
C9_NoViewOnFailure ==
    LET c == call[1] IN
    (c.op = "ingest" /\ c.pc # "done") =>
        /\ views = c.views0
        /\ c.ret = NoTable

\* C9 witness: the reload of the artifact just persisted failed; the views
\* registered before the call are still there.
C9_Witness ==
    /\ call[1].op = "ingest" /\ call[1].pc = "failed"
    /\ call[1].err = "collaborator"
    /\ Logged(call[1], "to_parquet")
    /\ DOMAIN call[1].views0 # {}
    /\ views = call[1].views0

Range(f) == {f[j] : j \in 1..Len(f)}

\* C10 (as stated): when the batch call has failed while expanding one
\* archive, every other listed archive has been expanded.
C10_AsStated ==
    LET c == call[1] IN
    (c.op = "batch" /\ c.pc = "failed") =>
        \A j \in 1..Len(c.listed) :
            c.listed[j] = c.zipkey \/ c.listed[j] \in Range(c.expanded)

\* C10 (amended): the listed archives are expanded one after another in
\* listing order; an error raised while one is expanded propagates out of the
\* batch call and halts it: the archives listed before it have been expanded
\* and none listed after it has been touched.
C10_HaltsAtFailure ==
    LET c   == call[1]
        cur == IF \/ c.pc \in {"get_object", "put_object"}
                  \/ c.pc = "failed" /\ c.zipkey # None
               THEN <<c.zipkey>> ELSE <<>>
    IN
    (c.op = "batch" /\ Logged(c, "list_objects")) =>
        /\ c.listed = c.expanded \o cur \o c.todo
        /\ \A j \in 1..Len(c.log) :
              c.log[j].op = "get_object" => c.log[j].key \notin Range(c.todo)
        /\ c.pc = "done" => c.expanded = c.listed

\* C10 witness: the batch failed while k.zip was being expanded, after one of
\* its entries was written; r.zip, listed after it, is left unexpanded.
C10_Witness ==
    /\ call[1].op = "batch" /\ call[1].pc = "failed"
    /\ call[1].listed = <<KZip, RZip>>
    /\ call[1].zipkey = KZip
    /\ Len(call[1].extracted) = 1
    /\ call[1].expanded = <<>>
    /\ call[1].todo = <<RZip>>

\* C11: on the EXPAND path of ingest, every object the expansion has written
\* lies in the source bucket under the archive key with its extension
\* stripped, the load that follows reads that prefix, and the table loaded
\* holds the rows of every entry written.
C11_ExpandAndLoadSamePrefix ==
    LET c    == call[1]
        stem == SubSeq(c.prefix, 1, Len(c.prefix) - 4)
    IN
    (c.op = "ingest" /\ ~c.hit /\ HasArchiveSuffix(c.prefix)) =>
        /\ \A j \in 1..Len(c.extracted) :
              /\ c.extracted[j][1] = c.bucket
              /\ StartsWith(c.extracted[j][2], stem \o <<"/">>)
        /\ \A j \in 1..Len(c.log) :
              c.log[j].op = "read_csv" => c.log[j] = Ev("read_csv", c.bucket, stem)
        /\ c.df.fmt = "csv" =>
              \A j \in 1..Len(c.entries) :
                  \A m \in 1..Len(c.entries[j].data) : c.entries[j].data[m] \in c.df.rows

\* The operations of a call's log after its check for the artifact, the
\* archive expansion left out
StepsAfterCheck(c) ==
    LET a == AfterCheck(c)
        keep(e) == e.op \notin {"get_object", "put_object"}
    IN  [j \in 1..Len(SelectSeq(a, keep)) |-> SelectSeq(a, keep)[j].op]

\* C12: after a miss the steps are, in this order, the load of the source,
\* the persist to the canonical artifact, the reload from the artifact and the
\* registration of the view; the table registered and returned is the one
\* reloaded from the artifact, and no view ever holds a table loaded from a
\* source.
C12_MissOrder ==
    LET c == call[1]
        order == <<"read_csv", "to_parquet", "read_parquet", "create_view">>
    IN
    /\ \A n \in DOMAIN views : views[n].fmt = "parquet"
    /\ (c.op = "ingest" /\ ~c.hit) =>
          /\ Len(StepsAfterCheck(c)) <= 4
          /\ StepsAfterCheck(c) = SubSeq(order, 1, Len(StepsAfterCheck(c)))
          /\ c.pc = "done" =>
                /\ StepsAfterCheck(c) = order
                /\ c.ret.fmt = "parquet"
                /\ c.ret.path = <<c.dest, c.parquet>>
                /\ c.ret.rows = objects[<<c.dest, c.parquet>>].rows

\* C12 witness: a miss on k.csv has returned the table reloaded from the
\* artifact s/k.parquet.
C12_Witness ==
    /\ call[1].op = "ingest" /\ call[1].pc = "done" /\ ~call[1].hit
    /\ call[1].prefix = KCsv /\ call[1].dest = STAGE
    /\ call[1].ret = [fmt |-> "parquet",
                      path |-> <<STAGE, <<"k">> \o ParquetSuffix>>,
                      rows |-> {1, 2}]

\* C13: a call that has returned successfully leaves its view name bound to
\* the table it returns, whatever was bound to the name before, and leaves the
\* view of every other name as it was when the call was made.
C13_LastWriteWins ==
    LET c == call[1] IN
    (c.op = "ingest" /\ c.pc = "done") =>
        \E name \in DOMAIN views :
            /\ name = (IF c.temp = None THEN SplitextRoot(c.prefix) ELSE c.temp)
            /\ views[name] = c.ret
            /\ \A n \in DOMAIN c.views0 : n \in DOMAIN views
            /\ \A n \in DOMAIN views \ {name} : n \in DOMAIN c.views0 /\ views[n] = c.views0[n]

\* C13 witness: a second source has been ingested under the view name v that
\* the first had been registered under; v now holds the second call's table,
\* and the views k and v are both registered.
C13_Witness ==
    /\ call[1].op = "ingest" /\ call[1].pc = "done"
    /\ call[1].temp = ViewV
    /\ ViewV \in DOMAIN call[1].views0
    /\ call[1].views0[ViewV].path # call[1].ret.path
    /\ views[ViewV] = call[1].ret

\* C14: the objects extract_and_upload_zip writes are, with extract_to_bucket
\* true, the entries at the root of the archive's bucket (the key of each is
\* the entry's name), whatever destination object is given; else, with a
\* destination object, the entries under that object's key; else the entries
\* under the archive's key with its extension stripped.
C14_PrefixVariants ==
    LET c    == call[1]
        stem == SubSeq(c.zipkey, 1, Len(c.zipkey) - 4)
        under(j) == IF c.etb THEN c.entries[j].name
                    ELSE IF c.destobj # None
                         THEN c.destobj \o <<"/">> \o c.entries[j].name
                         ELSE stem \o <<"/">> \o c.entries[j].name
    IN
    (c.op \in {"extract", "batch"} /\ c.dprefix # None) =>
        \A j \in 1..Len(c.extracted) : c.extracted[j] = <<c.bucket, under(j)>>

OptionKeys(items) == { items[j][1] : j \in 1..Len(items) }

\* C16: the reader read_csv_to_dataframe loads with has, when no options are
\* given, exactly the options header = true, inferSchema = true and the
\* delimiter; when options are given, exactly the keys given and the
\* delimiter, each key but delimiter with the value given; always the
\* delimiter argument as its delimiter, over any delimiter among the options;
\* and the path s3a://{bucket}/{prefix}.
C16_ReaderOptions ==
    LET a == csvin
        r == csvout
        given == a.option_args.items
    IN
    r # NoReader =>
        /\ r.path = <<"s", "3", "a", ":", "/", "/">> \o a.bucket_name \o <<"/">> \o a.prefix
        /\ r.options["delimiter"] = a.delimiter
        /\ a.option_args.none =>
              /\ DOMAIN r.options = {"header", "inferSchema", "delimiter"}
              /\ r.options["header"] = "true"
              /\ r.options["inferSchema"] = "true"
        /\ ~a.option_args.none =>
              /\ DOMAIN r.options = OptionKeys(given) \cup {"delimiter"}
              /\ \A j \in 1..Len(given) :
                    given[j][1] # "delimiter" => r.options[given[j][1]] = given[j][2]

\* C16 witness: the options given hold a delimiter and no header; the reader
\* has the delimiter argument, the quote given, and neither default.
C16_Witness ==
    /\ csvin.option_args = OptionArgs(<< <<"delimiter", "|">>, <<"quote", "'">> >>)
    /\ csvin.delimiter = ";"
    /\ csvin.bucket_name = RAW /\ csvin.prefix = KCsv
    /\ DOMAIN csvout.options = {"delimiter", "quote"}
    /\ csvout.options["delimiter"] = ";"
    /\ csvout.options["quote"] = "'"
    /\ csvout.path = <<"s", "3", "a", ":", "/", "/", "r", "/", "k", ".", "c", "s", "v">>

\* The put_object events of a call's log
PutEvents(c) == SelectSeq(c.log, LAMBDA e : e.op = "put_object")

\* C17: when the writing of the k-th entry of an archive raises, in
\* extract_and_upload_zip or in the expansion inside ingest_file_to_datalake,
\* the call has failed; the objects of the entries 1..k-1 are in the bucket
\* with the entries' bytes; and the call has written those objects only,
\* none for an entry from the k-th on.
C17_PartialExpansion ==
    LET c == call[1]
        k == c.i
    IN
    (/\ c.op \in {"extract", "ingest"}
     /\ c.pc = "failed" /\ c.err = "collaborator"
     /\ c.dprefix # None /\ k \in 1..Len(c.entries)) =>
        /\ Len(c.extracted) = k - 1
        /\ \A j \in 1..(k - 1) :
              /\ c.extracted[j] = <<c.bucket, c.dprefix \o <<"/">> \o c.entries[j].name>>
              /\ c.extracted[j] \in DOMAIN objects
              /\ objects[c.extracted[j]] = FileData(c.entries[j].data)
        /\ Len(PutEvents(c)) = k - 1
        /\ \A j \in 1..Len(PutEvents(c)) :
              <<PutEvents(c)[j].bucket, PutEvents(c)[j].key>> = c.extracted[j]
        /\ ~Logged(c, "read_csv")

\* C17 witness: the expansion of k.zip under o has failed at its third entry:
\* o/a.csv and o/d/ are in the bucket, o/d/b.csv is not.
C17_Witness ==
    /\ call[1].op = "extract" /\ call[1].pc = "failed"
    /\ call[1].zipkey = KZip /\ call[1].dprefix = DestObjO
    /\ call[1].i = 3
    /\ objects[<<RAW, <<"o", "/", "a", ".", "c", "s", "v">>>>] = FileData(<<3, 4>>)
    /\ <<RAW, <<"o", "/", "d", "/">>>> \in DOMAIN objects
    /\ <<RAW, <<"o", "/", "d", "/", "b", ".", "c", "s", "v">>>> \notin DOMAIN objects

\* The keys of the sources that share the artifact k.parquet
SameStem == {KCsv, KZip, KUpper, KPlain}

\* C18: a call for a source whose key strips to k, in whatever bucket and
\* with whatever extension, that finds in its destination bucket an artifact
\* k.parquet it has not persisted itself, is a hit: it reads no source, expands
\* no archive, persists nothing, and returns the table of that artifact.
C18_CacheKeyIgnoresSource ==
    LET c == call[1]
        artifact == <<c.dest, <<"k", ".", "p", "a", "r", "q", "u", "e", "t">>>>
    IN
    (/\ c.op = "ingest" /\ c.prefix \in SameStem
     /\ Logged(c, "object_exists")
     /\ ~Logged(c, "to_parquet")
     /\ IsArtifact(objects, artifact)) =>
        /\ c.hit
        /\ \A j \in 1..Len(c.log) :
              c.log[j].op \notin {"get_object", "put_object", "read_csv", "to_parquet"}
        /\ c.pc = "done" =>
              c.ret = [fmt |-> "parquet", path |-> artifact, rows |-> objects[artifact].rows]

\* C18 witness: after r/k.csv was ingested into s, a call for k.csv of the
\* bucket s, which holds no such source, and a call for r/k.zip have each
\* returned the rows of r/k.csv.
C18_Witness ==
    /\ call[1].op = "ingest" /\ call[1].pc = "done" /\ call[1].hit
    /\ call[1].dest = STAGE
    /\ \/ call[1].bucket = STAGE /\ call[1].prefix = KCsv
       \/ call[1].bucket = RAW /\ call[1].prefix = KZip
    /\ call[1].ret.rows = {1, 2}
    /\ ~Logged(call[1], "get_object") /\ ~Logged(call[1], "read_csv")

\* C19: every view is over a table read from an artifact that is an object of
\* its bucket; and a call that has registered its view has, before that, found
\* the artifact or persisted it, and the artifact is an object of the
\* destination bucket.
C19_ViewHasArtifact ==
    LET c == call[1] IN
    /\ \A n \in DOMAIN views :
          /\ views[n].path \in DOMAIN objects
          /\ EndsWith(views[n].path[2], ParquetSuffix)
    /\ (c.op = "ingest" /\ Logged(c, "create_view")) =>
          /\ <<c.dest, c.parquet>> \in DOMAIN objects
          /\ \E j \in 1..Len(c.log) :
                /\ c.log[j].op \in {"object_exists", "to_parquet"}
                /\ c.log[j].op = "object_exists" => c.hit
                /\ c.log[j].bucket = c.dest /\ c.log[j].key = c.parquet
                /\ \A m \in 1..Len(c.log) : c.log[m].op = "create_view" => j < m
    /\ (c.op = "ingest" /\ c.pc = "done") => Logged(c, "create_view")

\* C19 witness: the view k has been registered by a call that missed and
\* persisted the artifact s/k.parquet, which is in the bucket.
C19_Witness ==
    /\ call[1].op = "ingest" /\ call[1].pc = "done" /\ ~call[1].hit
    /\ Logged(call[1], "to_parquet")
    /\ <<"k">> \in DOMAIN views
    /\ views[<<"k">>].path = <<STAGE, <<"k">> \o ParquetSuffix>>
    /\ IsArtifact(objects, <<STAGE, <<"k">> \o ParquetSuffix>>)

=============================================================================
